---- MODULE Spec2Model ----
(***************************************************************************)
(* Model of the research assistant (src/research_assistant.py):            *)
(*   - validate_report: the citation-URL check against the search results  *)
(*   - chunk_content:   the token-bounded chunker                          *)
(*                                                                         *)
(* Strings are sequences of symbols.  A URL is a sequence over             *)
(*   "http:" "https:" "/" "www." "?" and host/path labels ("a", "e"),      *)
(* so that "http://" is <<"http:", "/", "/">> and rstrip('/') can reach    *)
(* into a scheme exactly as it does on characters.  The text given to the  *)
(* chunker is the sequence of its tokens: words, the sentence separator    *)
(* ". ", the paragraph separator "\n\n" and the full stop ".".  The         *)
(* Markdown of a report is the list of its blocks, each a sequence of      *)
(* literal pieces and field values ending in a newline, and their join.    *)
(***************************************************************************)
EXTENDS Integers, Sequences, FiniteSets, TLC

VARIABLES
    \* validate_report
    search_results,   \* ctx.deps.search_results: sequence of result URLs
    report,           \* result: [introduction, body_sections, conclusion], a section is its sources' URLs
    valid_urls,       \* the set valid_urls (lines 153-172)
    sec,              \* index of the section the outer loop (line 174) is at
    source_url,       \* the last normalized source_url (lines 181-187)
    url_found,        \* the last url_found (lines 190-202)
    checked,          \* the citation URLs checked so far, in order, with their verdicts
    warned,           \* the URLs a warning was printed for (lines 204-206), in order
    returned,         \* the value returned (line 210), or <<>> while none
    pc,               \* "variants" | "sections" | "raised" | "returned" | "idle"
    \* chunk_content
    content,          \* the argument content, a sequence of tokens
    max_tokens,       \* the argument max_tokens
    paragraphs,       \* content.split('\n\n') (line 256)
    para,             \* index of the paragraph the loop (line 258) is at
    chunks,           \* the list chunks
    current_chunk,    \* the list current_chunk; each unit carries where it came from
    current_tokens,   \* the counter current_tokens
    chunk_units,      \* history: for each chunk of chunks, the current_chunk it was joined from
    cpc,              \* "split" | "paragraphs" | "done" | "idle"
    \* format_report_markdown
    f_report,         \* the argument report, with titles, contents and sources
    md,               \* the list md of blocks
    all_sources,      \* the list all_sources (lines 230-234)
    f_i,              \* index of the running loop (body sections, then sources)
    markdown,         \* the string returned (line 240), or <<>> while none
    fpc,              \* "start" | "body" | "sources" | "done" | "idle"
    \* the pipelines: generate_research_report with __main__, and the web UI's main
    mode,             \* "cli" | "ui" | "idle"
    topic,            \* the topic entered
    ppc,              \* position in the pipeline
    calls,            \* the external calls issued so far, in order, with their outcomes
    n_results,        \* len(search_results) once the search has returned
    page,             \* index of the result the loop at line 318 is at
    chunk_n,          \* len(chunks) of the page being processed
    chunk_i,          \* index of the chunk process_content_chunks is at
    subtopic,         \* index of the subtopic the loop at streamlit_app.py line 172 is at
    errors,           \* the errors shown or raised, in order
    report_md,        \* TRUE once format_report_markdown has returned the report
    saved,            \* TRUE once the report file is written
    displayed         \* TRUE once the report is printed or rendered

varsV == <<search_results, report, valid_urls, sec, source_url, url_found,
           checked, warned, returned, pc>>

varsC == <<content, max_tokens, paragraphs, para, chunks, current_chunk,
           current_tokens, chunk_units, cpc>>

varsF == <<f_report, md, all_sources, f_i, markdown, fpc>>

varsP == <<mode, topic, ppc, calls, n_results, page, chunk_n, chunk_i, subtopic,
           errors, report_md, saved, displayed>>

vars == <<varsV, varsC, varsF, varsP>>

----------------------------------------------------------------------------
(* Bounds and input alphabets *)

MaxTail == 2          \* symbols after the prefix of an enumerated URL
MaxSources == 1       \* sources per section in the enumerated report shapes
MaxBodySections == 1  \* body sections in the enumerated report shapes
MaxContent == 7       \* tokens of an enumerated content
MaxBudget == 2        \* largest enumerated max_tokens
MaxSearchResults == 6 \* results a search returns at most
MaxChunks == 2        \* chunks a fetched page gives at most

HTTP  == <<"http:", "/", "/">>
HTTPS == <<"https:", "/", "/">>
WWW   == <<"www.">>

TailSyms == {"a", "e", "/", "?"}
KnownTailSyms == {"a", "/", "?"}

RECURSIVE SeqsUpTo(_, _)
SeqsUpTo(S, n) ==
    IF n = 0 THEN {<<>>}
    ELSE LET shorter == SeqsUpTo(S, n - 1)
         IN  shorter \cup {Append(s, x) : s \in {t \in shorter : Len(t) = n - 1}, x \in S}

Tails == SeqsUpTo(TailSyms, MaxTail)
KnownTails == SeqsUpTo(KnownTailSyms, MaxTail)

KnownPrefixes == {<<>>, HTTP, HTTPS, WWW, HTTPS \o WWW}
CandPrefixes  == {<<>>, HTTP, HTTPS, WWW, HTTPS \o WWW, HTTP \o HTTPS}

KnownUrls == {p \o t : p \in KnownPrefixes, t \in KnownTails}
CandUrls  == {p \o t : p \in CandPrefixes, t \in Tails}

\* the enumerated report shapes: their search results and the URLs they cite
FewResults == {<<>>, <<HTTPS \o <<"a">>, HTTP \o <<"e", "/">>>>}
CiteUrls == {HTTP \o <<"a">>, HTTPS \o <<"e", "/", "a">>}

----------------------------------------------------------------------------
(* String helpers (Python str methods on symbol sequences) *)

StartsWith(s, p) == Len(s) >= Len(p) /\ SubSeq(s, 1, Len(p)) = p

Drop(s, n) == SubSeq(s, n + 1, Len(s))

\* wrong: removes one trailing slash only
RStripOneSlash(s) ==
    IF s # <<>> /\ s[Len(s)] = "/" THEN SubSeq(s, 1, Len(s) - 1) ELSE s

\* s.rstrip('/')
RECURSIVE RStripSlash(_)
RStripSlash(s) ==
    IF s # <<>> /\ s[Len(s)] = "/" THEN RStripSlash(SubSeq(s, 1, Len(s) - 1)) ELSE s

\* s.split('?')[0]
RECURSIVE BeforeQuery(_)
BeforeQuery(s) ==
    IF s = <<>> \/ Head(s) = "?" THEN <<>> ELSE <<Head(s)>> \o BeforeQuery(Tail(s))

----------------------------------------------------------------------------
(* validate_report *)

\* lines 183-187 (source side) and 192-197 (valid side)
Normalize(u) ==
    RStripSlash(IF StartsWith(u, HTTP) THEN Drop(u, 3)
                ELSE IF StartsWith(u, HTTPS) THEN Drop(u, 3)
                ELSE u)

\* lines 155-172: what one search-result URL adds to valid_urls
Variants(url) ==
    {url, BeforeQuery(url), RStripSlash(url)}
    \cup (IF ~StartsWith(url, WWW) THEN {WWW \o url} ELSE {})
    \cup (IF StartsWith(url, WWW) THEN {Drop(url, 1)} ELSE {})
    \cup (IF StartsWith(url, HTTP) THEN {HTTPS \o Drop(url, 3)}
          ELSE IF StartsWith(url, HTTPS) THEN {HTTP \o Drop(url, 3)}
          ELSE {})

\* lines 153-172
RECURSIVE ValidUrls(_)
ValidUrls(results) ==
    IF results = <<>> THEN {}
    ELSE Variants(Head(results)) \cup ValidUrls(Tail(results))

\* wrong: the valid side is compared as it is, not normalized
MatchesRaw(src, valid_url) ==
    src = valid_url \/ BeforeQuery(src) = BeforeQuery(valid_url)

\* wrong: the query strings are compared too
MatchesExact(src, valid_url) ==
    src = Normalize(valid_url)

\* wrong: prefix test instead of equality
MatchesPrefix(src, valid_url) ==
    StartsWith(Normalize(valid_url), BeforeQuery(src))

\* lines 192-200: one iteration of the inner loop
Matches(src, valid_url) ==
    LET valid_normalized == Normalize(valid_url)
    IN  src = valid_normalized \/ BeforeQuery(src) = BeforeQuery(valid_normalized)

\* lines 190-202: the loop over valid_urls with its break
UrlFound(src, valids) == \E v \in valids : Matches(src, v)

\* lines 149-150
Sections(r) == <<r.introduction>> \o r.body_sections \o <<r.conclusion>>

\* lines 180-206 for the sources of one section: the verdicts, in order
RECURSIVE CheckSources(_, _)
CheckSources(sources, valids) ==
    IF sources = <<>> THEN <<>>
    ELSE <<[url |-> Head(sources),
            key |-> Normalize(Head(sources)),
            found |-> UrlFound(Normalize(Head(sources)), valids)]>>
         \o CheckSources(Tail(sources), valids)

RECURSIVE Unfound(_)
Unfound(verdicts) ==
    IF verdicts = <<>> THEN <<>>
    ELSE (IF Head(verdicts).found THEN <<>> ELSE <<Head(verdicts).url>>)
         \o Unfound(Tail(verdicts))

\* wrong: the unmatched citations are dropped from the returned report
RECURSIVE Keep(_, _)
Keep(sources, bad) ==
    IF sources = <<>> THEN <<>>
    ELSE (IF \E i \in DOMAIN bad : bad[i] = Head(sources) THEN <<>> ELSE <<Head(sources)>>)
         \o Keep(Tail(sources), bad)

ReturnValueDropping(r, bad) ==
    [introduction |-> Keep(r.introduction, bad),
     body_sections |-> [i \in DOMAIN r.body_sections |-> Keep(r.body_sections[i], bad)],
     conclusion |-> Keep(r.conclusion, bad)]

\* line 210: return result
ReturnValue(r, bad) == r

SectionLists == SeqsUpTo(CiteUrls, MaxSources)

ReportShapes ==
    [introduction : SectionLists,
     body_sections : SeqsUpTo(SectionLists, MaxBodySections),
     conclusion : SectionLists]

PipelineIdle ==
    /\ mode = "idle"
    /\ topic = ""
    /\ ppc = "idle"
    /\ calls = <<>>
    /\ n_results = 0
    /\ page = 1
    /\ chunk_n = 0
    /\ chunk_i = 1
    /\ subtopic = 1
    /\ errors = <<>>
    /\ report_md = FALSE
    /\ saved = FALSE
    /\ displayed = FALSE

FormatterIdle ==
    /\ f_report = <<>>
    /\ md = <<>>
    /\ all_sources = <<>>
    /\ f_i = 1
    /\ markdown = <<>>
    /\ fpc = "idle"

ChunkerIdle ==
    /\ content = <<>>
    /\ max_tokens = 1
    /\ paragraphs = <<>>
    /\ para = 1
    /\ chunks = <<>>
    /\ current_chunk = <<>>
    /\ current_tokens = 0
    /\ chunk_units = <<>>
    /\ cpc = "idle"

InitInputs ==
    \/ \E k \in KnownUrls, c \in CandUrls :
          /\ search_results = <<k>>
          /\ report = [introduction |-> <<c>>, body_sections |-> <<>>, conclusion |-> <<c>>]
    \/ /\ search_results \in FewResults
       /\ report \in ReportShapes

Init ==
    /\ InitInputs
    /\ valid_urls = {}
    /\ sec = 1
    /\ source_url = <<>>
    /\ url_found = FALSE
    /\ checked = <<>>
    /\ warned = <<>>
    /\ returned = <<>>
    /\ pc = "variants"
    /\ ChunkerIdle
    /\ FormatterIdle
    /\ PipelineIdle

\* lines 152-172
CollectValidUrls ==
    /\ pc = "variants"
    /\ valid_urls' = ValidUrls(search_results)
    /\ pc' = "sections"
    /\ UNCHANGED <<search_results, report, sec, source_url, url_found, checked, warned, returned>>
    /\ UNCHANGED <<varsC, varsF, varsP>>

\* lines 175-177: a section without sources raises ModelRetry
RaiseModelRetry ==
    /\ pc = "sections"
    /\ sec <= Len(Sections(report))
    /\ Sections(report)[sec] = <<>>
    /\ pc' = "raised"
    /\ UNCHANGED <<search_results, report, valid_urls, sec, source_url, url_found,
                   checked, warned, returned>>
    /\ UNCHANGED <<varsC, varsF, varsP>>

\* lines 179-208: one iteration of the outer loop on a section with sources
CheckSection ==
    /\ pc = "sections"
    /\ sec <= Len(Sections(report))
    /\ Sections(report)[sec] # <<>>
    /\ LET verdicts == CheckSources(Sections(report)[sec], valid_urls)
           last == verdicts[Len(verdicts)]
       IN  /\ source_url' = last.key
           /\ url_found' = last.found
           /\ checked' = checked \o verdicts
           /\ warned' = warned \o Unfound(verdicts)
    /\ sec' = sec + 1
    /\ UNCHANGED <<search_results, report, valid_urls, returned, pc>>
    /\ UNCHANGED <<varsC, varsF, varsP>>

\* line 210
ReturnReport ==
    /\ pc = "sections"
    /\ sec > Len(Sections(report))
    /\ returned' = <<ReturnValue(report, warned)>>
    /\ pc' = "returned"
    /\ UNCHANGED <<search_results, report, valid_urls, sec, source_url, url_found,
                   checked, warned>>
    /\ UNCHANGED <<varsC, varsF, varsP>>

Next ==
    \/ CollectValidUrls
    \/ RaiseModelRetry
    \/ CheckSection
    \/ ReturnReport

Spec == Init /\ [][Next]_vars

----------------------------------------------------------------------------
(* chunk_content *)

ParaSep == "<nl><nl>"   \* "\n\n"
SentSep == ". "
Dot     == "."
Words   == {"a", "b"}

ContentSyms == Words \cup {SentSep, ParaSep}

\* lines 243-246: the text is its token sequence, count_tokens its length
count_tokens(text) == Len(text)

\* text.split(sep): the pieces between the separators; one empty piece for an empty text
RECURSIVE Split(_, _)
Split(text, sep) ==
    IF \A i \in DOMAIN text : text[i] # sep THEN <<text>>
    ELSE LET i == CHOOSE n \in DOMAIN text :
                      text[n] = sep /\ \A m \in 1..(n - 1) : text[m] # sep
         IN  <<SubSeq(text, 1, i - 1)>> \o Split(SubSeq(text, i + 1, Len(text)), sep)

\* sep.join(parts)
RECURSIVE Join(_, _)
Join(parts, sep) ==
    IF parts = <<>> THEN <<>>
    ELSE IF Len(parts) = 1 THEN parts[1]
    ELSE parts[1] \o <<sep>> \o Join(Tail(parts), sep)

Texts(units) == [i \in DOMAIN units |-> units[i].text]

\* the loop state of chunk_content
LoopState(cs, us, cur, tok) ==
    [chunks |-> cs, chunk_units |-> us, current_chunk |-> cur, current_tokens |-> tok]

\* wrong: on overflow the accumulator is replaced without being flushed first
PackSentenceNoFlush(st, unit, max) ==
    LET sentence_tokens == count_tokens(unit.text) IN
    IF st.current_tokens + sentence_tokens <= max
    THEN LoopState(st.chunks, st.chunk_units,
                   Append(st.current_chunk, unit), st.current_tokens + sentence_tokens)
    ELSE LoopState(st.chunks, st.chunk_units, <<unit>>, sentence_tokens)

\* lines 265-273: one iteration of the sentence loop
PackSentence(st, unit, max) ==
    LET sentence_tokens == count_tokens(unit.text) IN
    IF st.current_tokens + sentence_tokens <= max
    THEN LoopState(st.chunks, st.chunk_units,
                   Append(st.current_chunk, unit), st.current_tokens + sentence_tokens)
    ELSE IF st.current_chunk # <<>>
         THEN LoopState(Append(st.chunks, Join(Texts(st.current_chunk), SentSep) \o <<Dot>>),
                        Append(st.chunk_units, st.current_chunk),
                        <<unit>>, sentence_tokens)
         ELSE LoopState(st.chunks, st.chunk_units, <<unit>>, sentence_tokens)

\* lines 263-273: the sentence loop over one oversized paragraph
RECURSIVE PackSentences(_, _, _, _)
PackSentences(st, sentences, p, max) ==
    IF sentences = <<>> THEN st
    ELSE PackSentences(
             PackSentence(st, [text |-> Head(sentences), para |-> p, sentence |-> TRUE], max),
             Tail(sentences), p, max)

ValidatorIdle ==
    /\ search_results = <<>>
    /\ report = [introduction |-> <<>>, body_sections |-> <<>>, conclusion |-> <<>>]
    /\ valid_urls = {}
    /\ sec = 1
    /\ source_url = <<>>
    /\ url_found = FALSE
    /\ checked = <<>>
    /\ warned = <<>>
    /\ returned = <<>>
    /\ pc = "idle"

InitChunk ==
    /\ content \in SeqsUpTo(ContentSyms, MaxContent)
    /\ max_tokens \in 1..MaxBudget
    /\ paragraphs = <<>>
    /\ para = 1
    /\ chunks = <<>>
    /\ current_chunk = <<>>
    /\ current_tokens = 0
    /\ chunk_units = <<>>
    /\ cpc = "split"
    /\ ValidatorIdle
    /\ FormatterIdle
    /\ PipelineIdle

\* lines 251-256
SplitParagraphs ==
    /\ cpc = "split"
    /\ paragraphs' = Split(content, ParaSep)
    /\ cpc' = "paragraphs"
    /\ UNCHANGED <<content, max_tokens, para, chunks, current_chunk, current_tokens, chunk_units>>
    /\ UNCHANGED <<varsV, varsF, varsP>>

\* lines 259-273: a paragraph over the budget is packed sentence by sentence
PackOversizedParagraph ==
    /\ cpc = "paragraphs"
    /\ para <= Len(paragraphs)
    /\ count_tokens(paragraphs[para]) > max_tokens
    /\ LET st == PackSentences(
                     LoopState(chunks, chunk_units, current_chunk, current_tokens),
                     Split(paragraphs[para], SentSep), para, max_tokens)
       IN  /\ chunks' = st.chunks
           /\ chunk_units' = st.chunk_units
           /\ current_chunk' = st.current_chunk
           /\ current_tokens' = st.current_tokens
    /\ para' = para + 1
    /\ UNCHANGED <<content, max_tokens, paragraphs, cpc>>
    /\ UNCHANGED <<varsV, varsF, varsP>>

\* lines 274-276
AppendParagraph ==
    /\ cpc = "paragraphs"
    /\ para <= Len(paragraphs)
    /\ count_tokens(paragraphs[para]) <= max_tokens
    /\ current_tokens + count_tokens(paragraphs[para]) <= max_tokens
    /\ current_chunk' = Append(current_chunk,
                               [text |-> paragraphs[para], para |-> para, sentence |-> FALSE])
    /\ current_tokens' = current_tokens + count_tokens(paragraphs[para])
    /\ para' = para + 1
    /\ UNCHANGED <<content, max_tokens, paragraphs, chunks, chunk_units, cpc>>
    /\ UNCHANGED <<varsV, varsF, varsP>>

\* lines 277-280
FlushAndStartChunk ==
    /\ cpc = "paragraphs"
    /\ para <= Len(paragraphs)
    /\ count_tokens(paragraphs[para]) <= max_tokens
    /\ current_tokens + count_tokens(paragraphs[para]) > max_tokens
    /\ chunks' = Append(chunks, Join(Texts(current_chunk), ParaSep))
    /\ chunk_units' = Append(chunk_units, current_chunk)
    /\ current_chunk' = <<[text |-> paragraphs[para], para |-> para, sentence |-> FALSE]>>
    /\ current_tokens' = count_tokens(paragraphs[para])
    /\ para' = para + 1
    /\ UNCHANGED <<content, max_tokens, paragraphs, cpc>>
    /\ UNCHANGED <<varsV, varsF, varsP>>

\* lines 282-285
ReturnChunks ==
    /\ cpc = "paragraphs"
    /\ para > Len(paragraphs)
    /\ IF current_chunk # <<>>
       THEN /\ chunks' = Append(chunks, Join(Texts(current_chunk), ParaSep))
            /\ chunk_units' = Append(chunk_units, current_chunk)
       ELSE UNCHANGED <<chunks, chunk_units>>
    /\ cpc' = "done"
    /\ UNCHANGED <<content, max_tokens, paragraphs, para, current_chunk, current_tokens>>
    /\ UNCHANGED <<varsV, varsF, varsP>>

NextChunk ==
    \/ SplitParagraphs
    \/ PackOversizedParagraph
    \/ AppendParagraph
    \/ FlushAndStartChunk
    \/ ReturnChunks

SpecChunk == InitChunk /\ [][NextChunk]_vars

----------------------------------------------------------------------------
(* format_report_markdown *)

NL == "<nl>"          \* "\n"
Stamp == "<timestamp>" \* report.timestamp.strftime('%Y-%m-%d %H:%M:%S')

\* the enumerated reports: two sources, two body titles
FmtSources == {[title |-> "s1", url |-> "u1", snippet |-> "q1"],
               [title |-> "s2", url |-> "u2", snippet |-> "q2"]}
FmtSourceLists == SeqsUpTo(FmtSources, MaxSources)
FmtEdgeSections == [title : {"I"}, content : {"x"}, sources : FmtSourceLists]
FmtBodySections == [title : {"A", "B"}, content : {"y"}, sources : FmtSourceLists]
FmtReports ==
    [title : {"T"},
     introduction : FmtEdgeSections,
     body_sections : SeqsUpTo(FmtBodySections, MaxBodySections),
     conclusion : FmtEdgeSections]

\* lines 216-219, 223-224, 226-229: the blocks
TitleBlock(r) == <<"# ", r.title, NL>>
StampBlock(r) == <<"*Generated on ", Stamp, "*", NL>>
HeadingBlock(title) == <<"## ", title, NL>>
ContentBlock(section) == <<section.content, NL>>

\* wrong: numbered from 0 (enumerate without the start argument)
SourceBlockFromZero(i, source) ==
    <<ToString(i - 1), ". [", source.title, "](", source.url, ")", NL>>

\* line 237
SourceBlock(i, source) ==
    <<ToString(i), ". [", source.title, "](", source.url, ")", NL>>

\* line 238
SnippetBlock(source) == <<"   > ", source.snippet, NL>>

RECURSIVE SourcesOf(_)
SourcesOf(sections) ==
    IF sections = <<>> THEN <<>> ELSE Head(sections).sources \o SourcesOf(Tail(sections))

\* wrong: the conclusion's sources are collected before the body's
AllSourcesConclusionFirst(r) ==
    r.introduction.sources \o r.conclusion.sources \o SourcesOf(r.body_sections)

\* lines 230-234
AllSources(r) ==
    r.introduction.sources \o SourcesOf(r.body_sections) \o r.conclusion.sources

InitFormat ==
    /\ f_report \in FmtReports
    /\ md = <<>>
    /\ all_sources = <<>>
    /\ f_i = 1
    /\ markdown = <<>>
    /\ fpc = "start"
    /\ ValidatorIdle
    /\ ChunkerIdle
    /\ PipelineIdle

\* lines 215-220
StartMarkdown ==
    /\ fpc = "start"
    /\ md' = <<TitleBlock(f_report), StampBlock(f_report),
               HeadingBlock("Introduction"), ContentBlock(f_report.introduction)>>
    /\ f_i' = 1
    /\ fpc' = "body"
    /\ UNCHANGED <<f_report, all_sources, markdown>>
    /\ UNCHANGED <<varsV, varsC, varsP>>

\* lines 222-224: one body section
AppendBodySection ==
    /\ fpc = "body"
    /\ f_i <= Len(f_report.body_sections)
    /\ md' = md \o <<HeadingBlock(f_report.body_sections[f_i].title),
                     ContentBlock(f_report.body_sections[f_i])>>
    /\ f_i' = f_i + 1
    /\ UNCHANGED <<f_report, all_sources, markdown, fpc>>
    /\ UNCHANGED <<varsV, varsC, varsP>>

\* lines 226-234
AppendConclusion ==
    /\ fpc = "body"
    /\ f_i > Len(f_report.body_sections)
    /\ md' = md \o <<HeadingBlock("Conclusion"), ContentBlock(f_report.conclusion),
                     HeadingBlock("Sources")>>
    /\ all_sources' = AllSources(f_report)
    /\ f_i' = 1
    /\ fpc' = "sources"
    /\ UNCHANGED <<f_report, markdown>>
    /\ UNCHANGED <<varsV, varsC, varsP>>

\* lines 236-238: one source
AppendSource ==
    /\ fpc = "sources"
    /\ f_i <= Len(all_sources)
    /\ md' = md \o <<SourceBlock(f_i, all_sources[f_i]), SnippetBlock(all_sources[f_i])>>
    /\ f_i' = f_i + 1
    /\ UNCHANGED <<f_report, all_sources, markdown, fpc>>
    /\ UNCHANGED <<varsV, varsC, varsP>>

\* line 240
JoinMarkdown ==
    /\ fpc = "sources"
    /\ f_i > Len(all_sources)
    /\ markdown' = Join(md, NL)
    /\ fpc' = "done"
    /\ UNCHANGED <<f_report, md, all_sources, f_i>>
    /\ UNCHANGED <<varsV, varsC, varsP>>

NextFormat ==
    \/ StartMarkdown
    \/ AppendBodySection
    \/ AppendConclusion
    \/ AppendSource
    \/ JoinMarkdown

SpecFormat == InitFormat /\ [][NextFormat]_vars

----------------------------------------------------------------------------
(* The pipelines: generate_research_report and __main__ (research_assistant.py), *)
(* main, collect_research_data and manual_generate_report (streamlit_app.py)     *)

TopResults == 5       \* search_results[:5]
NumSubtopics == 7     \* len(subtopics)

Min(a, b) == IF a <= b THEN a ELSE b

\* wrong: every result's page is fetched
PagesToFetchAll(n) == n

\* research_assistant.py line 318: the results the loop visits
PagesToFetch(n) == Min(n, TopResults)

Call(kind, idx, sub) ==
    [kind |-> kind, idx |-> idx, sub |-> sub, status |-> "pending", chunks |-> 0]

\* the log with the outcome of its last (pending) call filled in
Answered(log, status, k) ==
    [log EXCEPT ![Len(log)] = [@ EXCEPT !.status = status, !.chunks = k]]

\* wrong: a failed summarization is skipped like a failed page fetch
OnFailureSkipping(kind) ==
    IF kind \in {"fetch", "summarize"} THEN "pages" ELSE "raised"

\* research_assistant.py: where a failed external call of generate_research_report
\* leaves it: get_webpage_content catches its exception and returns '' (lines
\* 131-139); nothing catches around lines 314, 299 and 337
OnFailure(kind) ==
    IF kind = "fetch" THEN "pages" ELSE "raised"

\* research_assistant.py lines 67-72: the fields ResearchDeps requires
ResearchDepsFields == {"topic", "search_results", "webpage_contents"}

\* streamlit_app.py line 214: the keyword arguments collect_research_data passes
CollectDepsKwargs == {"topic", "search_results"}

\* the generated dataclass __init__: TypeError unless every field is given
ConstructorAccepts(kwargs) == kwargs = ResearchDepsFields

InitPipeline ==
    /\ mode \in {"cli", "ui"}
    /\ topic \in {"", "t"}
    /\ ppc = "start"
    /\ calls = <<>>
    /\ n_results = 0
    /\ page = 1
    /\ chunk_n = 0
    /\ chunk_i = 1
    /\ subtopic = 1
    /\ errors = <<>>
    /\ report_md = FALSE
    /\ saved = FALSE
    /\ displayed = FALSE
    /\ ValidatorIdle
    /\ ChunkerIdle
    /\ FormatterIdle

\* a failed call of generate_research_report
Fails(kind) ==
    /\ calls' = Answered(calls, "failed", 0)
    /\ ppc' = OnFailure(kind)
    /\ page' = IF OnFailure(kind) = "pages" THEN page + 1 ELSE page
    /\ errors' = IF OnFailure(kind) = "raised" THEN Append(errors, "exception") ELSE errors

\* research_assistant.py line 314 (search_topic, lines 98-103)
CallSearch ==
    /\ mode = "cli" /\ ppc = "start"
    /\ calls' = Append(calls, Call("search", 0, 0))
    /\ ppc' = "search_wait"
    /\ UNCHANGED <<mode, topic, n_results, page, chunk_n, chunk_i, subtopic, errors,
                   report_md, saved, displayed>>
    /\ UNCHANGED <<varsV, varsC, varsF>>

\* line 104, lines 317-318
SearchReturns ==
    /\ ppc = "search_wait"
    /\ \E n \in 0..MaxSearchResults :
          /\ n_results' = n
          /\ calls' = Answered(calls, "ok", 0)
    /\ page' = 1
    /\ ppc' = "pages"
    /\ UNCHANGED <<mode, topic, chunk_n, chunk_i, subtopic, errors, report_md, saved, displayed>>
    /\ UNCHANGED <<varsV, varsC, varsF>>

\* the search raises: nothing catches it
SearchFails ==
    /\ ppc = "search_wait"
    /\ Fails("search")
    /\ UNCHANGED <<mode, topic, n_results, chunk_n, chunk_i, subtopic, report_md, saved, displayed>>
    /\ UNCHANGED <<varsV, varsC, varsF>>

\* lines 318-320 (get_webpage_content, lines 112-117)
CallFetch ==
    /\ mode = "cli" /\ ppc = "pages"
    /\ page <= PagesToFetch(n_results)
    /\ calls' = Append(calls, Call("fetch", page, 0))
    /\ ppc' = "fetch_wait"
    /\ UNCHANGED <<mode, topic, n_results, page, chunk_n, chunk_i, subtopic, errors,
                   report_md, saved, displayed>>
    /\ UNCHANGED <<varsV, varsC, varsF>>

\* lines 119-129 and 322-324: the content has k chunks; k = 0 is the empty content
FetchReturns ==
    /\ ppc = "fetch_wait"
    /\ \E k \in 0..MaxChunks :
          /\ calls' = Answered(calls, "ok", k)
          /\ chunk_n' = k
          /\ IF k = 0
             THEN page' = page + 1 /\ ppc' = "pages"
             ELSE page' = page /\ ppc' = "chunks"
    /\ chunk_i' = 1
    /\ UNCHANGED <<mode, topic, n_results, subtopic, errors, report_md, saved, displayed>>
    /\ UNCHANGED <<varsV, varsC, varsF>>

\* lines 131-139: the exception is caught and '' is returned
FetchFails ==
    /\ ppc = "fetch_wait"
    /\ Fails("fetch")
    /\ UNCHANGED <<mode, topic, n_results, chunk_n, chunk_i, subtopic, report_md, saved, displayed>>
    /\ UNCHANGED <<varsV, varsC, varsF>>

\* lines 292-302 (process_content_chunks)
CallSummarize ==
    /\ ppc = "chunks"
    /\ chunk_i <= chunk_n
    /\ calls' = Append(calls, Call("summarize", page, chunk_i))
    /\ ppc' = "sum_wait"
    /\ UNCHANGED <<mode, topic, n_results, page, chunk_n, chunk_i, subtopic, errors,
                   report_md, saved, displayed>>
    /\ UNCHANGED <<varsV, varsC, varsF>>

\* lines 303-305 and 327: after the last chunk the loop at line 318 goes on
SummarizeReturns ==
    /\ ppc = "sum_wait"
    /\ calls' = Answered(calls, "ok", 0)
    /\ IF chunk_i = chunk_n
       THEN page' = page + 1 /\ ppc' = "pages"
       ELSE page' = page /\ ppc' = "chunks"
    /\ chunk_i' = chunk_i + 1
    /\ UNCHANGED <<mode, topic, n_results, chunk_n, subtopic, errors, report_md, saved, displayed>>
    /\ UNCHANGED <<varsV, varsC, varsF>>

\* agent.run raises at line 299: nothing catches it
SummarizeFails ==
    /\ ppc = "sum_wait"
    /\ Fails("summarize")
    /\ UNCHANGED <<mode, topic, n_results, chunk_n, chunk_i, subtopic, report_md, saved, displayed>>
    /\ UNCHANGED <<varsV, varsC, varsF>>

\* research_assistant.py lines 330-340; streamlit_app.py lines 219-234
CallFinal ==
    /\ \/ mode = "cli" /\ ppc = "pages" /\ page > PagesToFetch(n_results)
       \/ mode = "ui" /\ ppc = "generate"
    /\ calls' = Append(calls, Call("final", 0, 0))
    /\ ppc' = "final_wait"
    /\ UNCHANGED <<mode, topic, n_results, page, chunk_n, chunk_i, subtopic, errors,
                   report_md, saved, displayed>>
    /\ UNCHANGED <<varsV, varsC, varsF>>

\* research_assistant.py line 342; streamlit_app.py lines 238-246
FinalReturns ==
    /\ ppc = "final_wait"
    /\ calls' = Answered(calls, "ok", 0)
    /\ report_md' = TRUE
    /\ ppc' = "emit"
    /\ UNCHANGED <<mode, topic, n_results, page, chunk_n, chunk_i, subtopic, errors,
                   saved, displayed>>
    /\ UNCHANGED <<varsV, varsC, varsF>>

\* research_agent.run raises: uncaught in the script, caught at line 371 in the UI
FinalFails ==
    /\ ppc = "final_wait"
    /\ calls' = Answered(calls, "failed", 0)
    /\ IF mode = "ui"
       THEN ppc' = "caught" /\ errors' = errors
       ELSE ppc' = OnFailure("final") /\ errors' = Append(errors, "exception")
    /\ UNCHANGED <<mode, topic, n_results, page, chunk_n, chunk_i, subtopic,
                   report_md, saved, displayed>>
    /\ UNCHANGED <<varsV, varsC, varsF>>

\* research_assistant.py lines 350-356; streamlit_app.py lines 340-366
EmitReport ==
    /\ ppc = "emit"
    /\ saved' = TRUE
    /\ displayed' = TRUE
    /\ ppc' = "end"
    /\ UNCHANGED <<mode, topic, calls, n_results, page, chunk_n, chunk_i, subtopic, errors,
                   report_md>>
    /\ UNCHANGED <<varsV, varsC, varsF>>

\* streamlit_app.py line 319: nothing runs without a topic
IgnoreEmptyTopic ==
    /\ mode = "ui" /\ ppc = "start"
    /\ topic = ""
    /\ ppc' = "end"
    /\ UNCHANGED <<mode, topic, calls, n_results, page, chunk_n, chunk_i, subtopic, errors,
                   report_md, saved, displayed>>
    /\ UNCHANGED <<varsV, varsC, varsF>>

\* streamlit_app.py lines 319-334 and 161-167
CallPrimarySearch ==
    /\ mode = "ui" /\ ppc = "start"
    /\ topic # ""
    /\ calls' = Append(calls, Call("primary_search", 0, 0))
    /\ ppc' = "primary_wait"
    /\ UNCHANGED <<mode, topic, n_results, page, chunk_n, chunk_i, subtopic, errors,
                   report_md, saved, displayed>>
    /\ UNCHANGED <<varsV, varsC, varsF>>

\* line 169
PrimarySearchReturns ==
    /\ ppc = "primary_wait"
    /\ calls' = Answered(calls, "ok", 0)
    /\ subtopic' = 1
    /\ ppc' = "subtopics"
    /\ UNCHANGED <<mode, topic, n_results, page, chunk_n, chunk_i, errors,
                   report_md, saved, displayed>>
    /\ UNCHANGED <<varsV, varsC, varsF>>

\* the primary search raises outside the loop's try: caught at line 371
PrimarySearchFails ==
    /\ ppc = "primary_wait"
    /\ calls' = Answered(calls, "failed", 0)
    /\ ppc' = "caught"
    /\ UNCHANGED <<mode, topic, n_results, page, chunk_n, chunk_i, subtopic, errors,
                   report_md, saved, displayed>>
    /\ UNCHANGED <<varsV, varsC, varsF>>

\* lines 172-182
CallSubtopicSearch ==
    /\ ppc = "subtopics"
    /\ subtopic <= NumSubtopics
    /\ calls' = Append(calls, Call("subtopic_search", subtopic, 0))
    /\ ppc' = "subtopic_wait"
    /\ UNCHANGED <<mode, topic, n_results, page, chunk_n, chunk_i, subtopic, errors,
                   report_md, saved, displayed>>
    /\ UNCHANGED <<varsV, varsC, varsF>>

\* line 183
SubtopicSearchReturns ==
    /\ ppc = "subtopic_wait"
    /\ calls' = Answered(calls, "ok", 0)
    /\ subtopic' = subtopic + 1
    /\ ppc' = "subtopics"
    /\ UNCHANGED <<mode, topic, n_results, page, chunk_n, chunk_i, errors,
                   report_md, saved, displayed>>
    /\ UNCHANGED <<varsV, varsC, varsF>>

\* lines 184-186: the error is shown and the loop goes on
SubtopicSearchFails ==
    /\ ppc = "subtopic_wait"
    /\ calls' = Answered(calls, "failed", 0)
    /\ errors' = Append(errors, "subtopic")
    /\ subtopic' = subtopic + 1
    /\ ppc' = "subtopics"
    /\ UNCHANGED <<mode, topic, n_results, page, chunk_n, chunk_i, report_md, saved, displayed>>
    /\ UNCHANGED <<varsV, varsC, varsF>>

\* lines 188-214: the results are filtered and ResearchDeps is constructed
BuildDeps ==
    /\ ppc = "subtopics"
    /\ subtopic > NumSubtopics
    /\ ppc' = IF ConstructorAccepts(CollectDepsKwargs) THEN "generate" ELSE "caught"
    /\ UNCHANGED <<mode, topic, calls, n_results, page, chunk_n, chunk_i, subtopic, errors,
                   report_md, saved, displayed>>
    /\ UNCHANGED <<varsV, varsC, varsF>>

\* lines 367-375
ShowError ==
    /\ ppc = "caught"
    /\ errors' = Append(errors, "fatal")
    /\ ppc' = "end"
    /\ UNCHANGED <<mode, topic, calls, n_results, page, chunk_n, chunk_i, subtopic,
                   report_md, saved, displayed>>
    /\ UNCHANGED <<varsV, varsC, varsF>>

NextPipeline ==
    \/ CallSearch
    \/ SearchReturns
    \/ SearchFails
    \/ CallFetch
    \/ FetchReturns
    \/ FetchFails
    \/ CallSummarize
    \/ SummarizeReturns
    \/ SummarizeFails
    \/ CallFinal
    \/ FinalReturns
    \/ FinalFails
    \/ EmitReport
    \/ IgnoreEmptyTopic
    \/ CallPrimarySearch
    \/ PrimarySearchReturns
    \/ PrimarySearchFails
    \/ CallSubtopicSearch
    \/ SubtopicSearchReturns
    \/ SubtopicSearchFails
    \/ BuildDeps
    \/ ShowError

SpecPipeline == InitPipeline /\ [][NextPipeline]_vars

----------------------------------------------------------------------------
(* Properties of validate_report *)

RECURSIVE Flatten(_)
Flatten(lists) == IF lists = <<>> THEN <<>> ELSE Head(lists) \o Flatten(Tail(lists))

Results == {search_results[j] : j \in DOMAIN search_results}

\* a URL without one leading "www."
WithoutWww(u) == IF StartsWith(u, WWW) THEN Drop(u, 1) ELSE u

\* the part of a URL's comparison key before the first "/" or "?"
RECURSIVE UpToSlash(_)
UpToSlash(s) ==
    IF s = <<>> \/ Head(s) = "/" THEN <<>> ELSE <<Head(s)>> \o UpToSlash(Tail(s))

Host(u) == UpToSlash(BeforeQuery(Normalize(u)))

\* a URL whose host, after the scheme and a leading "www.", starts with a label
HasHostLabel(u) ==
    LET h == WithoutWww(Normalize(u)) IN h # <<>> /\ Head(h) \in {"a", "e"}

BeginsWithScheme(u) == StartsWith(u, HTTP) \/ StartsWith(u, HTTPS)

\* C1: every checked citation URL that equals some search-result URL once the
\* scheme and the trailing slashes are stripped from both is found (accepted);
\* this covers http against https in both directions.
C1_SchemeSlashAccepted ==
    \A i \in DOMAIN checked :
        (\E k \in Results : Normalize(checked[i].url) = Normalize(k))
            => checked[i].found

\* C1 witness: an http:// citation accepted against an https:// search result
C1_Witness ==
    \E i \in DOMAIN checked : \E k \in Results :
        /\ StartsWith(checked[i].url, HTTP)
        /\ StartsWith(k, HTTPS)
        /\ HasHostLabel(k)
        /\ Normalize(checked[i].url) = Normalize(k)
        /\ checked[i].found

\* C2 (as claimed): every checked citation URL (with a host) that differs from
\* some search-result URL only by a leading "www." on the host, besides scheme
\* and trailing slashes, is found (accepted).
C2_WwwAccepted ==
    \A i \in DOMAIN checked :
        (\E k \in Results :
            /\ HasHostLabel(k)
            /\ WithoutWww(Normalize(checked[i].url)) = WithoutWww(Normalize(k)))
            => checked[i].found

\* C3: every checked citation URL whose comparison key (scheme and trailing
\* slashes stripped) without its query string equals the query-less comparison
\* key of some search-result URL is found (accepted).
C3_QueryIgnored ==
    \A i \in DOMAIN checked :
        (\E k \in Results :
            BeforeQuery(Normalize(checked[i].url)) = BeforeQuery(Normalize(k)))
            => checked[i].found

\* C3 witness: a citation with a query string accepted against a result without one
C3_Witness ==
    \E i \in DOMAIN checked : \E k \in Results :
        /\ \E n \in DOMAIN checked[i].url : checked[i].url[n] = "?"
        /\ \A n \in DOMAIN k : k[n] # "?"
        /\ Normalize(k) # <<>>
        /\ Normalize(checked[i].url) # Normalize(k)
        /\ BeforeQuery(Normalize(checked[i].url)) = Normalize(k)
        /\ checked[i].found

\* C4 (as claimed): a citation URL (with a host) is found only if its host
\* equals the host of some search-result URL.
C4_HostOfSomeResult ==
    \A i \in DOMAIN checked :
        checked[i].found /\ HasHostLabel(checked[i].url)
            => \E k \in Results : Host(checked[i].url) = Host(k)

\* C4 (amended): a citation URL is found only if its comparison key, with or
\* without its query string, equals the same form of some variant collected
\* from a search-result URL; so its host is the host of such a variant.
C4_OnlyVariantsAccepted ==
    \A i \in DOMAIN checked :
        checked[i].found =>
            \E k \in Results : \E v \in Variants(k) :
                /\ v \in valid_urls
                /\ \/ Normalize(checked[i].url) = Normalize(v)
                   \/ BeforeQuery(Normalize(checked[i].url)) = BeforeQuery(Normalize(v))
                /\ Host(checked[i].url) = Host(v)

\* C4 witness: a citation on another host than the search result is checked and
\* is not found
C4_Witness ==
    \E i \in DOMAIN checked : \E k \in Results :
        /\ Host(checked[i].url) = <<"e">>
        /\ Host(k) = <<"a">>
        /\ Drop(Normalize(checked[i].url), 1) = Drop(Normalize(k), 1)
        /\ Len(Normalize(k)) > 1
        /\ ~checked[i].found

\* C5 (as claimed): normalizing a normalized URL changes nothing.
C5_NormalizeIdempotent ==
    \A i \in DOMAIN checked : Normalize(checked[i].key) = checked[i].key

\* C5 (amended): normalizing a normalized URL changes nothing unless the
\* normalized URL itself begins with http:// or https:// (one scheme is
\* stripped per application).
C5_IdempotentUnlessNestedScheme ==
    \A i \in DOMAIN checked :
        ~BeginsWithScheme(checked[i].key) => Normalize(checked[i].key) = checked[i].key

\* C5 witness: a URL with a scheme and trailing slashes was normalized
C5_Witness ==
    \E i \in DOMAIN checked :
        /\ BeginsWithScheme(checked[i].url)
        /\ checked[i].url[Len(checked[i].url)] = "/"
        /\ checked[i].key # <<>>
        /\ ~BeginsWithScheme(checked[i].key)
        /\ Normalize(checked[i].key) = checked[i].key

AllSectionsHaveSources(r) == \A s \in DOMAIN Sections(r) : Sections(r)[s] # <<>>

\* C6 (as claimed): validate_report never raises.
C6_NeverRaises == pc # "raised"

\* C6 (amended): validate_report raises (ModelRetry) exactly at a section that
\* has no sources; on a report whose sections all have sources it never raises,
\* it checks the sections in order up to its return, and it returns the report
\* it was given with every citation; each citation that matches no known
\* source is only warned about.
C6_RaisesOnlyWithoutSources ==
    /\ pc = "raised" => sec \in DOMAIN Sections(report) /\ Sections(report)[sec] = <<>>
    /\ AllSectionsHaveSources(report) => pc # "raised"
    /\ pc = "sections" =>
          /\ sec \in 1..(Len(Sections(report)) + 1)
          /\ checked = Flatten([s \in 1..(sec - 1) |->
                                   CheckSources(Sections(report)[s], valid_urls)])
    /\ pc = "returned" =>
          /\ returned = <<report>>
          /\ AllSectionsHaveSources(report)
          /\ Len(checked) > 0
          /\ warned = Unfound(checked)

\* C6 witness: a report with an unmatched citation is returned whole, after a warning
C6_Witness ==
    /\ pc = "returned"
    /\ warned # <<>>
    /\ \E i \in DOMAIN checked : checked[i].found
    /\ returned = <<report>>

----------------------------------------------------------------------------
(* Properties of chunk_content *)

\* the units chunk_content builds chunks from: each paragraph, or the sentences
\* of a paragraph whose own token count exceeds the budget
RECURSIVE UnitsFrom(_, _, _)
UnitsFrom(paras, p, max) ==
    IF p > Len(paras) THEN <<>>
    ELSE (IF count_tokens(paras[p]) > max
          THEN LET ss == Split(paras[p], SentSep)
               IN  [i \in DOMAIN ss |-> [text |-> ss[i], para |-> p, sentence |-> TRUE]]
          ELSE <<[text |-> paras[p], para |-> p, sentence |-> FALSE]>>)
         \o UnitsFrom(paras, p + 1, max)

OverBudget == {i \in DOMAIN chunks : count_tokens(chunks[i]) > max_tokens}

\* C7 (as claimed): at most one returned chunk has more tokens than max_tokens.
C7_AtMostOneOverBudget ==
    cpc = "done" => Cardinality(OverBudget) <= 1

\* C8 (as claimed): the empty content gives an empty list of chunks.
C8_EmptyContentNoChunks ==
    cpc = "done" /\ content = <<>> => chunks = <<>>

\* C9 (as claimed): the sentences of an oversized paragraph never share a chunk
\* with a unit of another paragraph.
C9_OversizedParagraphKeptApart ==
    cpc = "done" =>
        \A c \in DOMAIN chunk_units :
            \A i, j \in DOMAIN chunk_units[c] :
                chunk_units[c][i].sentence =>
                    chunk_units[c][j].para = chunk_units[c][i].para

\* C10: the units of the chunks, listed chunk by chunk and followed by the
\* pending accumulator, are exactly the units of the paragraphs consumed so
\* far, each once and in source order; every chunk is the join of its units,
\* and at the return nothing is left pending.
C10_UnitsInOrderNoLoss ==
    cpc \in {"paragraphs", "done"} =>
        /\ Flatten(chunk_units) \o (IF cpc = "done" THEN <<>> ELSE current_chunk)
              = UnitsFrom(SubSeq(paragraphs, 1, para - 1), 1, max_tokens)
        /\ cpc = "done" => para = Len(paragraphs) + 1 /\ paragraphs = Split(content, ParaSep)
        /\ Len(chunks) = Len(chunk_units)
        /\ \A c \in DOMAIN chunks :
              /\ chunk_units[c] # <<>>
              /\ chunks[c] \in {Join(Texts(chunk_units[c]), ParaSep),
                                Join(Texts(chunk_units[c]), SentSep) \o <<Dot>>}

\* C10 witness: a run over plain and oversized paragraphs returned several chunks
C10_Witness ==
    /\ cpc = "done"
    /\ Len(chunks) >= 3
    /\ \E c \in DOMAIN chunk_units : Len(chunk_units[c]) >= 2
    /\ \E c \in DOMAIN chunk_units : \E i \in DOMAIN chunk_units[c] : chunk_units[c][i].sentence
    /\ \E c \in DOMAIN chunk_units : \E i \in DOMAIN chunk_units[c] : ~chunk_units[c][i].sentence

----------------------------------------------------------------------------
(* Properties of format_report_markdown *)

----------------------------------------------------------------------------
(* Properties of the pipelines *)

NoReportOut == ~report_md /\ ~saved /\ ~displayed

Failed(i) == calls[i].status = "failed"

\* the call is the last one of the run, the run is over or on its way to the
\* error display, and nothing has been returned, displayed or saved
AbortedAt(i) ==
    /\ i = Len(calls)
    /\ ppc \in {"raised", "caught", "end"}
    /\ NoReportOut
    /\ ppc = "raised" => errors # <<>> /\ errors[Len(errors)] = "exception"
    /\ ppc = "end" => errors # <<>> /\ errors[Len(errors)] = "fatal"

\* C12 as stated: whenever any external call (search, page fetch, chunk
\* summarization, final completion) has failed, the generation is aborted: the
\* failed call is the last step, the run ends in an error, and no report is
\* returned, displayed or saved.
C12_AnyFailureAborts ==
    \A i \in 1..Len(calls) : Failed(i) => AbortedAt(i)

AbortingKinds == {"search", "primary_search", "summarize", "final"}

NumFailed(kind) == Cardinality({i \in 1..Len(calls) : Failed(i) /\ calls[i].kind = kind})

NumErrors(e) == Cardinality({i \in 1..Len(errors) : errors[i] = e})

\* C12, amended: a failed search of the script, primary search of the UI, chunk
\* summarization or final completion aborts the generation (last step, error,
\* nothing returned, displayed or saved); a failed page fetch is taken as an
\* empty page and the run goes on with the next result without an error; a
\* failed subtopic search of the UI is shown as an error and the collection goes
\* on with the next subtopic.
C12_AbortingFailuresAbort ==
    /\ \A i \in 1..Len(calls) :
          Failed(i) /\ calls[i].kind \in AbortingKinds => AbortedAt(i)
    /\ \A i \in 1..Len(calls) :
          Failed(i) /\ calls[i].kind = "fetch" =>
             IF i = Len(calls)
             THEN ppc = "pages" /\ page = calls[i].idx + 1
             ELSE calls[i + 1].kind \in {"fetch", "final"}
    /\ \A i \in 1..Len(calls) :
          Failed(i) /\ calls[i].kind = "subtopic_search" =>
             IF i = Len(calls)
             THEN ppc \in {"subtopics", "caught", "end"} /\ subtopic = calls[i].idx + 1
             ELSE calls[i + 1].kind = "subtopic_search" /\ calls[i + 1].idx = calls[i].idx + 1
    /\ NumErrors("subtopic") = NumFailed("subtopic_search")
    /\ mode = "cli" => Len(errors) = NumFailed("search") + NumFailed("summarize") + NumFailed("final")

\* a run in which one page fetch failed, later pages were still fetched, and a
\* failed summarization then ended the run with the exception
C12_Witness ==
    /\ mode = "cli" /\ ppc = "raised"
    /\ Len(calls) >= 4
    /\ Failed(Len(calls)) /\ calls[Len(calls)].kind = "summarize"
    /\ \E i \in 1..Len(calls) : Failed(i) /\ calls[i].kind = "fetch"
    /\ NoReportOut
    /\ errors = <<"exception">>

Limit == Min(n_results, TopResults)

\* the chunks of the page the run fetched as its p-th
ChunksOfPage(p) ==
    LET i == CHOOSE j \in 1..Len(calls) : calls[j].kind = "fetch" /\ calls[j].idx = p
    IN  calls[i].chunks

\* b is the call that comes after the last call about page p
AfterPage(p, b) ==
    \/ p < Limit /\ b.kind = "fetch" /\ b.idx = p + 1
    \/ p = Limit /\ b.kind = "final"

\* b is the call the fixed order puts right after the completed call a
Follows(a, b) ==
    CASE a.kind = "search" ->
            /\ a.status = "ok"
            /\ AfterPage(0, b)
      [] a.kind = "fetch" ->
            IF a.status = "ok" /\ a.chunks > 0
            THEN b.kind = "summarize" /\ b.idx = a.idx /\ b.sub = 1
            ELSE AfterPage(a.idx, b)
      [] a.kind = "summarize" ->
            /\ a.status = "ok"
            /\ IF a.sub < ChunksOfPage(a.idx)
               THEN b.kind = "summarize" /\ b.idx = a.idx /\ b.sub = a.sub + 1
               ELSE AfterPage(a.idx, b)
      [] OTHER -> FALSE

\* C13: generate_research_report issues its calls one at a time (every call but
\* the last of the log has completed) in the fixed order: the search first, then
\* for each of the first min(n, 5) results in order one fetch and, if it gave
\* content, one summarization per chunk in chunk order, and the final completion
\* exactly once after all of them.
C13_SequentialFixedOrder ==
    mode = "cli" =>
       /\ \A i \in 1..(Len(calls) - 1) : calls[i].status # "pending"
       /\ calls # <<>> => calls[1].kind = "search"
       /\ \A i \in 2..Len(calls) : Follows(calls[i - 1], calls[i])
       /\ \A i \in 1..Len(calls) : calls[i].kind = "fetch" => calls[i].idx \in 1..TopResults
       /\ ppc \in {"emit", "end"} =>
             /\ Cardinality({i \in 1..Len(calls) : calls[i].kind = "final"}) = 1
             /\ calls[Len(calls)].kind = "final"
             /\ Cardinality({i \in 1..Len(calls) : calls[i].kind = "fetch"}) = Limit

\* a finished run over more than five results, with a page of two chunks, an
\* empty page and a failed fetch
C13_Witness ==
    /\ mode = "cli" /\ ppc = "end"
    /\ n_results > TopResults
    /\ \E i \in 1..Len(calls) : calls[i].kind = "summarize" /\ calls[i].sub = 2
    /\ \E i \in 1..Len(calls) :
          calls[i].kind = "fetch" /\ calls[i].status = "ok" /\ calls[i].chunks = 0
    /\ \E i \in 1..Len(calls) : calls[i].kind = "fetch" /\ Failed(i)
    /\ calls[Len(calls)].kind = "final"

\* C14: in the web UI, a finished run on a non-empty topic in which every search
\* and completion call succeeded has saved and displayed the report and shown
\* no error.
C14_UiRunSucceeds ==
    (/\ mode = "ui" /\ topic # "" /\ ppc = "end"
     /\ \A i \in 1..Len(calls) : calls[i].status = "ok")
       => saved /\ displayed /\ errors = <<>>

====
